---- MODULE Spec2Model ----
(***************************************************************************)
(* Model of src/lambda_function.py: the batch handler lambda_handler and   *)
(* the four stage functions it calls for every record of an S3 event.      *)
(*                                                                         *)
(* Python strings are sequences of chunks (TLA+ strings); a text that the  *)
(* code slices, lower-cases or parses is a sequence of one-character       *)
(* chunks.  Decoded text is a sequence of code points (integers), bytes    *)
(* are sequences of integers 0..255.                                       *)
(***************************************************************************)
EXTENDS Integers, Sequences, FiniteSets, TLC

VARIABLES
    book_meta_table,     \* rows of the DynamoDB table (a set of items)
    processed_bucket,    \* objects of the processed-text bucket (a set of [Key, Body])
    event,               \* event['Records'] of the invocation: a sequence of object keys
    idx,                 \* position of the for loop in event['Records']
    pc,                  \* position of lambda_handler's control
    overall_status,      \* the dict overall_status
    extracted_text,      \* local extracted_text of the loop body
    book_analysis_data,  \* local book_analysis_data of the loop body
    exc,                 \* the exception in flight to an except clause
    returned,            \* what the invocation returned, NoReturn before it returns
    clock,               \* datetime.now() in ms, one tick per table write
    records_seen,         \* number of records handed to the invocations so far
    outcome,             \* history: how each record of this invocation ended
    oplog,               \* history: the store and model calls of this invocation, in order
    model_text           \* history: the model text joined for the current record

vars == <<book_meta_table, processed_bucket, event, idx, pc, overall_status,
          extracted_text, book_analysis_data, exc, returned, clock,
          records_seen, outcome, oplog, model_text>>

-----------------------------------------------------------------------------
(* Bounds *)

\* records in one event
MaxBatch == 2

\* records over all the invocations of a behaviour
MaxRecords == 3

-----------------------------------------------------------------------------
(* Sequence and string helpers *)

Front(s) == SubSeq(s, 1, Len(s) - 1)

Last(s) == s[Len(s)]

Min(a, b) == IF a < b THEN a ELSE b

\* s[:n] of Python
Slice(s, n) == SubSeq(s, 1, Min(n, Len(s)))

\* sep.join(ss)
RECURSIVE Join(_, _)
Join(ss, sep) ==
    IF ss = <<>> THEN <<>>
    ELSE IF Len(ss) = 1 THEN ss[1]
    ELSE ss[1] \o <<sep>> \o Join(Tail(ss), sep)

IsSuffix(s, t) == Len(s) <= Len(t) /\ SubSeq(t, Len(t) - Len(s) + 1, Len(t)) = s

Contains(t, s) ==
    \E i \in 0..(Len(t) - Len(s)) : SubSeq(t, i + 1, i + Len(s)) = s

\* str.lower() on the letters that occur in the keys of the model
LowerChar(c) ==
    CASE c = "T" -> "t" [] c = "X" -> "x" [] c = "P" -> "p"
      [] c = "D" -> "d" [] c = "F" -> "f" [] c = "Y" -> "y"
      [] c = "Z" -> "z" [] OTHER -> c

Lower(s) == [i \in DOMAIN s |-> LowerChar(s[i])]

-----------------------------------------------------------------------------
(* Object keys.  A key is its sequence of '.'-separated segments, each a   *)
(* sequence of characters: book1.txt is <<b1, txt>>.                       *)

\* key.lower().split('.')[-1]
FileExt(key) == Last([i \in DOMAIN key |-> Lower(key[i])])

\* os.path.splitext(os.path.basename(file_key))[0]
BookId(key) == IF Len(key) > 1 THEN Join(Front(key), ".") ELSE key[1]

\* the text of the key itself
KeyStr(key) == Join(key, ".")

\* f"processed_texts/{book_id}.txt"
ProcessedKey(book_id) == <<"processed_texts/">> \o book_id \o <<".txt">>

TXT == <<"t", "x", "t">>
PDF == <<"p", "d", "f">>

-----------------------------------------------------------------------------
(* Exceptions: [type, msg], msg being str(e).                              *)

NoExc == [type |-> "None", msg |-> <<>>]

Raise(t, m) == [type |-> t, msg |-> m]

\* a match by exact class, which misses the subclasses
IsInstance_exact(e, cls) ==
    IF cls = "Exception" THEN e.type # "None" ELSE e.type = cls

\* the Python class hierarchy as far as the except clauses tell it apart
IsInstance(e, cls) ==
    CASE cls = "Exception" -> e.type # "None"
      [] cls = "ValueError" ->
             e.type \in {"ValueError", "UnicodeDecodeError", "JSONDecodeError"}
      [] cls = "JSONDecodeError" -> e.type = "JSONDecodeError"
      [] cls = "FileNotFoundError" -> e.type = "FileNotFoundError"
      [] cls = "NoSuchKey" -> e.type = "NoSuchKey"
      [] OTHER -> e.type = cls

\* the result of a call: a value or a raised exception
Return(v) == [raised |-> FALSE, value |-> v, exc |-> NoExc]

Raised(e) == [raised |-> TRUE, value |-> <<>>, exc |-> e]

-----------------------------------------------------------------------------
(* Source objects.  A body is its bytes together with what PdfReader makes *)
(* of them: malformed, or pages whose extract_text() is a text or None.    *)

PageText(t) == [none |-> FALSE, text |-> t]

PageNone == [none |-> TRUE, text |-> <<>>]

NotPdf == [ok |-> FALSE, pages |-> <<>>]

Bodies ==
    { [bytes |-> <<104, 195, 169>>, pdf |-> NotPdf],       \* "h" and e-acute, valid UTF-8
      [bytes |-> <<37, 80, 68, 70, 255>>,                  \* a PDF of three pages
       pdf |-> [ok |-> TRUE,
                pages |-> <<PageText(<<97>>), PageNone, PageText(<<98>>)>>]] }

\* what s3_client.get_object answers
S3GetResponses ==
    { [err |-> "NoSuchKey", body |-> <<>>],
      [err |-> "AccessDenied", body |-> <<>>] }
    \cup { [err |-> "", body |-> b] : b \in Bodies }

\* bytes.decode('utf-8'): ASCII and two-byte sequences; anything else is invalid
RECURSIVE Utf8Decode(_)
Utf8Decode(bytes) ==
    IF bytes = <<>> THEN [ok |-> TRUE, text |-> <<>>]
    ELSE IF bytes[1] < 128
    THEN LET rest == Utf8Decode(Tail(bytes))
         IN  [ok |-> rest.ok, text |-> <<bytes[1]>> \o rest.text]
    ELSE IF /\ bytes[1] \in 194..223
            /\ Len(bytes) >= 2
            /\ bytes[2] \in 128..191
    THEN LET rest == Utf8Decode(Tail(Tail(bytes)))
         IN  [ok |-> rest.ok,
              text |-> <<(bytes[1] - 192) * 64 + (bytes[2] - 128)>> \o rest.text]
    ELSE [ok |-> FALSE, text |-> <<>>]

\* str.encode('utf-8') for code points below 2048
RECURSIVE Utf8Encode(_)
Utf8Encode(text) ==
    IF text = <<>> THEN <<>>
    ELSE IF text[1] < 128 THEN <<text[1]>> \o Utf8Encode(Tail(text))
    ELSE <<192 + (text[1] \div 64), 128 + (text[1] % 64)>> \o Utf8Encode(Tail(text))

\* a loop that gives up at the first page without text
RECURSIVE ConcatPages_stop(_)
ConcatPages_stop(pages) ==
    IF pages = <<>> \/ pages[1].none THEN <<>>
    ELSE pages[1].text \o ConcatPages_stop(Tail(pages))

\* the loop  for page in reader.pages: text += page.extract_text() or ""
RECURSIVE ConcatPages(_)
ConcatPages(pages) ==
    IF pages = <<>> THEN <<>>
    ELSE (IF pages[1].none THEN <<>> ELSE pages[1].text) \o ConcatPages(Tail(pages))

\* download_and_extract_text_from_s3(bucket_name, key), resp the answer of get_object
download_and_extract_text_from_s3(key, resp) ==
    IF resp.err = "NoSuchKey"
    THEN Raised(Raise("FileNotFoundError",
                      <<"File not found: s3://">> \o KeyStr(key)))
    ELSE IF resp.err # ""
    THEN Raised(Raise("ClientError", <<"An error occurred (", resp.err, ")">>))
    ELSE LET file_ext == FileExt(key)
             file_content_bytes == resp.body.bytes
         IN  IF file_ext = TXT
             THEN LET d == Utf8Decode(file_content_bytes)
                  IN  IF d.ok THEN Return(d.text)
                      ELSE Raised(Raise("UnicodeDecodeError",
                                        <<"'utf-8' codec can't decode byte">>))
             ELSE IF file_ext = PDF
             THEN IF resp.body.pdf.ok
                  THEN Return(ConcatPages(resp.body.pdf.pages))
                  ELSE Raised(Raise("PdfReadError", <<"EOF marker not found">>))
             ELSE Raised(Raise("ValueError",
                               <<"Unsupported file type: ">> \o file_ext
                                   \o <<". (pdf, txt)">>))

-----------------------------------------------------------------------------
(* The model service and json.loads.                                       *)
(*                                                                         *)
(* A model text is a sequence of one-character chunks over a small JSON    *)
(* alphabet: { } [ ] : ,  the keys T A G (the JSON strings "title",        *)
(* "author", "genre"), the values s (some JSON string) and n (the JSON     *)
(* string "N/A"), and the scalars 1 (a number), b (true) and z (null);     *)
(* every other character is not JSON.                                      *)

RawTextLimit == 200

NA == <<"N/A">>

JsonKeys == {"T", "A", "G"}

JsonStrings == {"s", "n"}

KeyName(c) == CASE c = "T" -> "title" [] c = "A" -> "author" [] OTHER -> "genre"

StrValue(c) == IF c = "n" THEN NA ELSE <<"Dune">>

\* Python values the analysis can return
PyDict(d) == [py |-> "dict", d |-> d]

PyOther(t) == [py |-> t, d |-> <<>>]

EmptyDict == [k \in {} |-> <<>>]

\* text is  { k:v , k:v , ... }  with m >= 1 members
IsObjectText(text, m) ==
    /\ Len(text) = 4 * m + 1
    /\ text[1] = "{"
    /\ text[Len(text)] = "}"
    /\ \A j \in 1..m :
          /\ text[4 * j - 2] \in JsonKeys
          /\ text[4 * j - 1] = ":"
          /\ text[4 * j] \in JsonStrings
          /\ (j < m => text[4 * j + 1] = ",")

\* the dict of an object text: a repeated key keeps its last value
ObjectOf(text, m) ==
    LET names == {KeyName(text[4 * j - 2]) : j \in 1..m}
        last(k) == CHOOSE j \in 1..m :
                       /\ KeyName(text[4 * j - 2]) = k
                       /\ \A i \in 1..m : KeyName(text[4 * i - 2]) = k => i <= j
    IN  [k \in names |-> StrValue(text[4 * last(k)])]

\* json.loads(text)
json_loads(text) ==
    IF Len(text) = 1 /\ text[1] \in JsonStrings THEN Return(PyOther("str"))
    ELSE IF text = <<"1">> THEN Return(PyOther("int"))
    ELSE IF text = <<"b">> THEN Return(PyOther("bool"))
    ELSE IF text = <<"z">> THEN Return(PyOther("NoneType"))
    ELSE IF text = <<"[", "]">> THEN Return(PyOther("list"))
    ELSE IF text = <<"{", "}">> THEN Return(PyDict(EmptyDict))
    ELSE IF Len(text) >= 5 /\ (Len(text) - 1) % 4 = 0
            /\ IsObjectText(text, (Len(text) - 1) \div 4)
    THEN Return(PyDict(ObjectOf(text, (Len(text) - 1) \div 4)))
    ELSE Raised(Raise("JSONDecodeError", <<"Expecting value">>))

TextBlock(t) == [type |-> "text", text |-> t]

ToolBlock == [type |-> "tool_use", text |-> <<>>]

Garbage(n) == [i \in 1..n |-> IF i = n THEN "y" ELSE "x"]

Envelope(blocks) == [err |-> "", valid |-> TRUE, content |-> blocks]

\* what bedrock_runtime_client.invoke_model answers
ModelResponses ==
    { [err |-> "ThrottlingException", valid |-> FALSE, content |-> <<>>],
      [err |-> "", valid |-> FALSE, content |-> <<>>],     \* body is not JSON
      Envelope(<<TextBlock(<<"{", "T", ":", "s">>), ToolBlock, TextBlock(<<"}">>)>>),
      Envelope(<<TextBlock(<<"[", "]">>)>>),
      Envelope(<<>>),
      Envelope(<<TextBlock(Garbage(RawTextLimit + 1))>>) }

\* the loop over response_body.get('content', []) that joins the text blocks
RECURSIVE ConcatTextBlocks(_)
ConcatTextBlocks(blocks) ==
    IF blocks = <<>> THEN <<>>
    ELSE (IF blocks[1].type = "text" THEN blocks[1].text ELSE <<>>)
             \o ConcatTextBlocks(Tail(blocks))

\* a fallback that copies the whole raw text
FallbackRecord_whole(book_id, ai_analysis_raw_text) ==
    [title |-> book_id,
     author |-> NA,
     prologue_summary |-> <<"AI analysis failed to parse. Raw text: ">>
                              \o ai_analysis_raw_text,
     episode_summaries |-> <<>>,
     ending_summary |-> NA,
     book_overview |-> <<"AI analysis failed to provide a valid JSON output.">>]

\* the dict returned by the except json.JSONDecodeError clause
FallbackRecord(book_id, ai_analysis_raw_text) ==
    [title |-> book_id,
     author |-> NA,
     prologue_summary |-> <<"AI analysis failed to parse. Raw text: ">>
                              \o Slice(ai_analysis_raw_text, RawTextLimit),
     episode_summaries |-> <<>>,
     ending_summary |-> NA,
     book_overview |-> <<"AI analysis failed to provide a valid JSON output.">>]

\* an analysis that falls back whenever the parsed value is not a dict
analyze_book_with_bedrock_dict_only(book_id, resp) ==
    IF resp.err # ""
    THEN Raised(Raise("ClientError", <<"An error occurred (", resp.err, ")">>))
    ELSE IF ~resp.valid
    THEN Raised(Raise("UnboundLocalError",
                      <<"cannot access local variable 'ai_analysis_raw_text'">>))
    ELSE LET ai_analysis_raw_text == ConcatTextBlocks(resp.content)
             parsed == json_loads(ai_analysis_raw_text)
         IN  IF parsed.raised \/ parsed.value.py # "dict"
             THEN Return(PyDict(FallbackRecord(book_id, ai_analysis_raw_text)))
             ELSE Return(parsed.value)

\* an analysis whose raw text is bound before the body is parsed
analyze_book_with_bedrock_bound(book_id, resp) ==
    IF resp.err # ""
    THEN Raised(Raise("ClientError", <<"An error occurred (", resp.err, ")">>))
    ELSE IF ~resp.valid
    THEN Return(PyDict(FallbackRecord(book_id, <<>>)))
    ELSE LET ai_analysis_raw_text == ConcatTextBlocks(resp.content)
             parsed == json_loads(ai_analysis_raw_text)
         IN  IF parsed.raised
             THEN Return(PyDict(FallbackRecord(book_id, ai_analysis_raw_text)))
             ELSE Return(parsed.value)

\* analyze_book_with_bedrock(extracted_text, book_id), resp the answer of invoke_model
analyze_book_with_bedrock(book_id, resp) ==
    IF resp.err # ""
    THEN Raised(Raise("ClientError", <<"An error occurred (", resp.err, ")">>))
    ELSE IF ~resp.valid
    THEN \* json.loads of the body raises before ai_analysis_raw_text is bound,
         \* and the except clause reads it
         Raised(Raise("UnboundLocalError",
                      <<"cannot access local variable 'ai_analysis_raw_text'">>))
    ELSE LET ai_analysis_raw_text == ConcatTextBlocks(resp.content)
             parsed == json_loads(ai_analysis_raw_text)
         IN  IF parsed.raised
             THEN Return(PyDict(FallbackRecord(book_id, ai_analysis_raw_text)))
             ELSE Return(parsed.value)

-----------------------------------------------------------------------------
(* The table and the processed-text bucket.                                *)

\* dict.get(k, default)
Get(d, k, default) == IF k \in DOMAIN d THEN d[k] ELSE default

\* analysis_data after the two defaulting ifs of save_metadata_to_dynamodb
WithDefaults(book_id, analysis_data) ==
    LET d1 == IF Get(analysis_data, "title", NA) = NA
              THEN [k \in DOMAIN analysis_data \cup {"title"} |->
                       IF k = "title" THEN book_id ELSE analysis_data[k]]
              ELSE analysis_data
    IN  IF Get(d1, "author", NA) = NA /\ "author" \notin DOMAIN d1
        THEN [k \in DOMAIN d1 \cup {"author"} |->
                 IF k = "author" THEN <<"Unknown">> ELSE d1[k]]
        ELSE d1

\* item_to_put of save_metadata_to_dynamodb
item_to_put(book_id, analysis_data, original_s3_key, processed_s3_key, now) ==
    [bookId |-> book_id,
     title |-> Get(analysis_data, "title", <<"Unknown Title">>),
     author |-> Get(analysis_data, "author", <<"Unknown Author">>),
     genre |-> Get(analysis_data, "genre", <<"Unknown">>),
     originalS3Key |-> original_s3_key,
     processedS3Key |-> processed_s3_key,
     protagonist |-> Get(analysis_data, "protagonist", <<>>),
     worldbuilding |-> Get(analysis_data, "worldbuilding", <<>>),
     temporalSpatialSetting |-> Get(analysis_data, "temporal_spatial_setting", <<>>),
     plotSummary |-> Get(analysis_data, "plot_summary", <<>>),
     keyEvents |-> Get(analysis_data, "key_events", <<>>),
     endingSummary |-> Get(analysis_data, "ending_summary", <<>>),
     bookOverview |-> Get(analysis_data, "book_overview", <<>>),
     status |-> "PROCESSED",
     lastProcessedDate |-> now]

\* the Item of handle_processing_error
FailedItem(book_id, file_key, error_message, now) ==
    [bookId |-> book_id,
     status |-> "FAILED",
     errorMessage |-> error_message,
     originalS3Key |-> file_key,
     lastProcessedDate |-> now]

\* a write that adds the item and leaves the earlier row of its key in place
put_item_append(table, item) == table \cup {item}

\* a write that updates the row of its key field by field (an update, not a put)
put_item_merge(table, item) ==
    LET old == {r \in table : r.bookId = item.bookId}
        merged(r) == [k \in DOMAIN r \cup DOMAIN item |->
                         IF k \in DOMAIN item THEN item[k] ELSE r[k]]
    IN  IF old = {} THEN table \cup {item}
        ELSE (table \ old) \cup {merged(r) : r \in old}

\* book_meta_table.put_item(Item=item): the item replaces the row of its key
put_item(table, item) == {r \in table : r.bookId # item.bookId} \cup {item}

\* s3_client.put_object(Bucket, Key, Body): the object replaces the one of its key
put_object(bucket, key, body) ==
    {o \in bucket : o.Key # key} \cup {[Key |-> key, Body |-> body]}

-----------------------------------------------------------------------------
(* lambda_handler                                                          *)

B1 == <<"b", "1">>
B2 == <<"b", "2">>

\* the object keys an event can name
Keys ==
    { <<B1, <<"T", "x", "t">>>>,       \* b1.Txt
      <<B1, <<"P", "D", "F">>>>,       \* b1.PDF
      <<B2, <<"x", "y", "z">>>> }      \* b2.xyz

\* event['Records'] of one invocation
Events == UNION {[1..n -> Keys] : n \in 1..MaxBatch}

Body == "Processing initiated for all records. Check logs for details."

NoReturn == [statusCode |-> 0, body |-> ""]

NoData == PyOther("unset")

\* except clauses without the one for ValueError
except_clause_no_value_error(e) ==
    IF IsInstance(e, "FileNotFoundError")
    THEN [error_message |-> <<"File not found: ">> \o e.msg, statusCode |-> 202]
    ELSE [error_message |-> <<"An unexpected error occurred during processing: ">>
                                \o e.msg,
          statusCode |-> 500]

\* except clauses whose catch-all assigns the code of a partial failure
except_clause_partial(e) ==
    IF IsInstance(e, "FileNotFoundError")
    THEN [error_message |-> <<"File not found: ">> \o e.msg, statusCode |-> 202]
    ELSE IF IsInstance(e, "ValueError")
    THEN [error_message |-> <<"Data validation error: ">> \o e.msg, statusCode |-> 202]
    ELSE [error_message |-> <<"An unexpected error occurred during processing: ">>
                                \o e.msg,
          statusCode |-> 202]

\* the three except clauses of the loop body: the message handed to
\* handle_processing_error and the statusCode assigned after it
except_clause(e) ==
    IF IsInstance(e, "FileNotFoundError")
    THEN [error_message |-> <<"File not found: ">> \o e.msg, statusCode |-> 202]
    ELSE IF IsInstance(e, "ValueError")
    THEN [error_message |-> <<"Data validation error: ">> \o e.msg, statusCode |-> 202]
    ELSE [error_message |-> <<"An unexpected error occurred during processing: ">>
                                \o e.msg,
          statusCode |-> 500]

\* a loop that gives up after the first record
loop_next_break(i, n) == "done"

\* the for loop: the position after record i of n has been dealt with
loop_next(i, n) == IF i < n THEN "extract" ELSE "done"

\* a success path that writes the code of success
success_status_reset(status) == [status EXCEPT !.statusCode = 200]

\* the success path of the try block assigns nothing to overall_status
success_status(status) == status

Log(op, ok) == Append(oplog, [op |-> op, i |-> idx, ok |-> ok])

NoItem == [bookId |-> <<>>, status |-> "NONE"]

\* a record before it ends; put is the last item the table accepted for it,
\* pdf what PdfReader makes of the body that get_object returned for it
Pending ==
    [state |-> "Pending", parse |-> "none", error |-> "", msg |-> <<>>, put |-> NoItem,
     pdf |-> NotPdf]

\* what the model text of a response is to json.loads
ParseKind(resp) ==
    IF resp.err # "" \/ ~resp.valid THEN "none"
    ELSE LET parsed == json_loads(ConcatTextBlocks(resp.content))
         IN  IF parsed.raised THEN "invalid"
             ELSE IF parsed.value.py = "dict" THEN "object" ELSE "other"

\* a loop body that runs every record a second time
EndOfRecord_retry(status) ==
    LET gets == {k \in DOMAIN oplog : oplog[k].op = "get_object" /\ oplog[k].i = idx}
    IN  /\ pc' = IF Cardinality(gets) < 2 THEN "extract" ELSE loop_next(idx, Len(event))
        /\ idx' = IF pc' = "extract" /\ Cardinality(gets) >= 2 THEN idx + 1 ELSE idx
        /\ returned' = IF pc' = "done" THEN status ELSE returned
        /\ exc' = NoExc

\* the end of the loop body for record idx, status being overall_status by then
EndOfRecord(status) ==
    /\ pc' = loop_next(idx, Len(event))
    /\ idx' = IF pc' = "extract" THEN idx + 1 ELSE idx
    /\ returned' = IF pc' = "done" THEN status ELSE returned
    /\ exc' = NoExc

Init ==
    /\ book_meta_table = {}
    /\ processed_bucket = {}
    /\ event = <<>>
    /\ idx = 0
    /\ pc = "idle"
    /\ overall_status = NoReturn
    /\ extracted_text = <<>>
    /\ book_analysis_data = NoData
    /\ exc = NoExc
    /\ returned = NoReturn
    /\ clock = 1
    /\ records_seen = 0
    /\ outcome = <<>>
    /\ oplog = <<>>
    /\ model_text = <<>>

\* the platform invokes lambda_handler(event, context) with an event of events,
\* as long as the behaviour has seen no more than limit records
InvokeWith(events, limit) ==
    /\ pc \in {"idle", "done", "crashed"}
    /\ \E ev \in events :
          /\ records_seen + Len(ev) <= limit
          /\ event' = ev
          /\ records_seen' = records_seen + Len(ev)
          /\ outcome' = [i \in 1..Len(ev) |-> Pending]
    /\ overall_status' = [statusCode |-> 200, body |-> Body]
    /\ idx' = 1
    /\ pc' = "extract"
    /\ returned' = NoReturn
    /\ extracted_text' = <<>>
    /\ book_analysis_data' = NoData
    /\ exc' = NoExc
    /\ oplog' = <<>>
    /\ model_text' = <<>>
    /\ UNCHANGED <<book_meta_table, processed_bucket, clock>>

Invoke == InvokeWith(Events, MaxRecords)

\* step 1 of the loop body: download_and_extract_text_from_s3, get_object
\* answering with one of responses
ExtractFrom(responses) ==
    /\ pc = "extract"
    /\ \E resp \in responses :
          LET r == download_and_extract_text_from_s3(event[idx], resp)
          IN  /\ oplog' = Log("get_object", resp.err = "")
              /\ outcome' = [outcome EXCEPT ![idx].pdf =
                                 IF resp.err = "" THEN resp.body.pdf ELSE NotPdf]
              /\ IF r.raised
                 THEN /\ exc' = r.exc
                      /\ pc' = "except"
                      /\ UNCHANGED extracted_text
                 ELSE /\ extracted_text' = r.value
                      /\ pc' = "analyze"
                      /\ UNCHANGED exc
    /\ model_text' = <<>>
    /\ UNCHANGED <<book_meta_table, processed_bucket, event, idx, overall_status,
                   book_analysis_data, returned, clock, records_seen>>

Extract == ExtractFrom(S3GetResponses)

\* step 2 of the loop body: analyze_book_with_bedrock, invoke_model answering
\* with one of responses
AnalyzeFrom(responses) ==
    /\ pc = "analyze"
    /\ \E resp \in responses :
          LET r == analyze_book_with_bedrock(BookId(event[idx]), resp)
          IN  /\ oplog' = Log("invoke_model", resp.err = "")
              /\ model_text' = IF ParseKind(resp) = "none" THEN <<>>
                               ELSE ConcatTextBlocks(resp.content)
              /\ outcome' = [outcome EXCEPT ![idx].parse = ParseKind(resp)]
              /\ IF r.raised
                 THEN /\ exc' = r.exc
                      /\ pc' = "except"
                      /\ UNCHANGED book_analysis_data
                 ELSE /\ book_analysis_data' = r.value
                      /\ pc' = "save_metadata"
                      /\ UNCHANGED exc
    /\ UNCHANGED <<book_meta_table, processed_bucket, event, idx, overall_status,
                   extracted_text, returned, clock, records_seen>>

Analyze == AnalyzeFrom(ModelResponses)

\* a metadata step that logs a failed put_item and carries on
SaveMetadata_swallow ==
    /\ pc = "save_metadata"
    /\ IF book_analysis_data.py # "dict"
       THEN /\ exc' = Raise("AttributeError", <<"object has no attribute 'get'">>)
            /\ pc' = "except"
            /\ UNCHANGED <<book_meta_table, book_analysis_data, clock, oplog,
                           outcome>>
       ELSE \E ok \in BOOLEAN :
            LET book_id == BookId(event[idx])
                data == WithDefaults(book_id, book_analysis_data.d)
                item == item_to_put(book_id, data, KeyStr(event[idx]),
                                    ProcessedKey(book_id), clock)
            IN  /\ book_analysis_data' = PyDict(data)
                /\ clock' = clock + 1
                /\ oplog' = Log("put_item", ok)
                /\ pc' = "save_text"
                /\ UNCHANGED exc
                /\ IF ok
                   THEN /\ book_meta_table' = put_item(book_meta_table, item)
                        /\ outcome' = [outcome EXCEPT ![idx].put = item]
                   ELSE UNCHANGED <<book_meta_table, outcome>>
    /\ UNCHANGED <<processed_bucket, event, idx, overall_status, extracted_text,
                   returned, records_seen, model_text>>

\* step 3 of the loop body: save_metadata_to_dynamodb
SaveMetadata ==
    /\ pc = "save_metadata"
    /\ IF book_analysis_data.py # "dict"
       THEN \* analysis_data.get does not exist
            /\ exc' = Raise("AttributeError", <<"object has no attribute 'get'">>)
            /\ pc' = "except"
            /\ UNCHANGED <<book_meta_table, book_analysis_data, clock, oplog,
                           outcome>>
       ELSE \E ok \in BOOLEAN :
            LET book_id == BookId(event[idx])
                data == WithDefaults(book_id, book_analysis_data.d)
                item == item_to_put(book_id, data, KeyStr(event[idx]),
                                    ProcessedKey(book_id), clock)
            IN  /\ book_analysis_data' = PyDict(data)
                /\ clock' = clock + 1
                /\ oplog' = Log("put_item", ok)
                /\ IF ok
                   THEN /\ book_meta_table' = put_item(book_meta_table, item)
                        /\ outcome' = [outcome EXCEPT ![idx].put = item]
                        /\ pc' = "save_text"
                        /\ UNCHANGED exc
                   ELSE /\ exc' = Raise("ClientError",
                                        <<"An error occurred (", "PutItem", ")">>)
                        /\ pc' = "except"
                        /\ UNCHANGED <<book_meta_table, outcome>>
    /\ UNCHANGED <<processed_bucket, event, idx, overall_status, extracted_text,
                   returned, records_seen, model_text>>

\* step 4 of the loop body: save_processed_text_to_s3, and the end of the try block
SaveText ==
    /\ pc = "save_text"
    /\ \E ok \in BOOLEAN :
          /\ oplog' = Log("put_object", ok)
          /\ IF ok
             THEN /\ processed_bucket' =
                        put_object(processed_bucket,
                                   ProcessedKey(BookId(event[idx])),
                                   Utf8Encode(extracted_text))
                  /\ outcome' = [outcome EXCEPT ![idx].state = "Succeeded"]
                  /\ overall_status' = success_status(overall_status)
                  /\ EndOfRecord(overall_status')
             ELSE /\ exc' = Raise("ClientError",
                                  <<"An error occurred (", "PutObject", ")">>)
                  /\ pc' = "except"
                  /\ UNCHANGED <<processed_bucket, outcome, idx, returned,
                                 overall_status>>
    /\ UNCHANGED <<book_meta_table, event, clock, records_seen, extracted_text,
                   book_analysis_data, model_text>>

\* an except clause that survives a failed write of the FAILED row
HandleError_swallow ==
    /\ pc = "except"
    /\ \E ok \in BOOLEAN :
          LET c == except_clause(exc)
              item == FailedItem(BookId(event[idx]), KeyStr(event[idx]),
                                 c.error_message, clock)
          IN  /\ clock' = clock + 1
              /\ oplog' = Log("put_failed", ok)
              /\ book_meta_table' =
                    IF ok THEN put_item(book_meta_table, item) ELSE book_meta_table
              /\ overall_status' =
                    [overall_status EXCEPT !.statusCode = c.statusCode]
              /\ outcome' = [outcome EXCEPT ![idx].state = "Failed",
                                            ![idx].error = exc.type,
                                            ![idx].msg = exc.msg,
                                            ![idx].put = IF ok THEN item ELSE @]
              /\ EndOfRecord(overall_status')
    /\ UNCHANGED <<processed_bucket, event, records_seen, extracted_text,
                   book_analysis_data, model_text>>

\* the except clause that matches exc: handle_processing_error, then the statusCode
HandleError ==
    /\ pc = "except"
    /\ \E ok \in BOOLEAN :
          LET c == except_clause(exc)
              item == FailedItem(BookId(event[idx]), KeyStr(event[idx]),
                                 c.error_message, clock)
          IN  /\ clock' = clock + 1
              /\ oplog' = Log("put_failed", ok)
              /\ IF ok
                 THEN /\ book_meta_table' = put_item(book_meta_table, item)
                      /\ overall_status' =
                            [overall_status EXCEPT !.statusCode = c.statusCode]
                      /\ outcome' = [outcome EXCEPT ![idx].state = "Failed",
                                                    ![idx].error = exc.type,
                                                    ![idx].msg = exc.msg,
                                                    ![idx].put = item]
                      /\ EndOfRecord(overall_status')
                 ELSE \* put_item raises inside the except clause: the invocation dies
                      /\ pc' = "crashed"
                      /\ outcome' = [outcome EXCEPT ![idx].state = "Crashed",
                                                    ![idx].error = exc.type,
                                                    ![idx].msg = exc.msg]
                      /\ UNCHANGED <<book_meta_table, overall_status, idx, returned,
                                     exc>>
    /\ UNCHANGED <<processed_bucket, event, records_seen, extracted_text,
                   book_analysis_data, model_text>>

Next == Invoke \/ Extract \/ Analyze \/ SaveMetadata \/ SaveText \/ HandleError

Spec == Init /\ [][Next]_vars

TypeOK ==
    /\ pc \in {"idle", "extract", "analyze", "save_metadata", "save_text",
               "except", "done", "crashed"}
    /\ overall_status.statusCode \in {0, 200, 202, 500}
    /\ idx \in 0..MaxBatch

(* One invocation with one record, over a wider choice of keys, source    *)
(* objects and model answers than Spec affords: extensions in every letter *)
(* case, keys without a '.', PDFs of 0..MaxPages pages, and model texts    *)
(* that are JSON values of every kind.                                     *)

\* pages of one PDF
MaxPages == 3

\* what extract_text() returns for a page: None, "", or a text
PageKinds == {PageNone, PageText(<<>>), PageText(<<97>>), PageText(<<98, 99>>)}

PageSeqs == UNION {[1..n -> PageKinds] : n \in 0..MaxPages}

PdfBytes == <<37, 80, 68, 70, 255>>

WideBodies ==
    Bodies \cup {[bytes |-> PdfBytes, pdf |-> [ok |-> TRUE, pages |-> ps]] : ps \in PageSeqs}

WideResponses ==
    { [err |-> "NoSuchKey", body |-> <<>>] }
    \cup { [err |-> "", body |-> b] : b \in WideBodies }

WideKeys ==
    { <<B1, <<"t", "x", "t">>>>,       \* b1.txt
      <<B1, <<"T", "X", "T">>>>,       \* b1.TXT
      <<B1, <<"p", "d", "f">>>>,       \* b1.pdf
      <<B1, <<"P", "d", "F">>>>,       \* b1.PdF
      <<B1, <<"x", "y", "z">>>>,       \* b1.xyz
      <<B1, <<"X", "Y", "Z">>>>,       \* b1.XYZ
      <<B1, <<"t", "x">>>>,            \* b1.tx
      <<B1>>,                          \* b1
      <<<<"T", "x", "t">>>>,           \* Txt, a key without '.'
      <<<<"p", "d", "f">>>> }          \* pdf, a key without '.'

WideModelResponses ==
    ModelResponses
    \cup { Envelope(<<TextBlock(<<c>>)>>) : c \in {"s", "1", "b", "z"} }
    \cup { Envelope(<<TextBlock(<<"[">>), TextBlock(<<"]">>)>>),
           Envelope(<<TextBlock(<<"{", "A", ":", "n", ",", "T", ":", "n", "}">>)>>),
           Envelope(<<TextBlock(<<"{", "T", ":", "s", "}", "x">>)>>) }

InvokeOne == InvokeWith({<<k>> : k \in WideKeys}, 1)

ExtractWide == ExtractFrom(WideResponses)

AnalyzeWide == AnalyzeFrom(WideModelResponses)

NextWide ==
    InvokeOne \/ ExtractWide \/ AnalyzeWide \/ SaveMetadata \/ SaveText \/ HandleError

WideSpec == Init /\ [][NextWide]_vars

\* lambda_handler runs each started step to its end
FairSpec ==
    Spec /\ WF_vars(Extract \/ Analyze \/ SaveMetadata \/ SaveText \/ HandleError)

-----------------------------------------------------------------------------
(* Vocabulary of the properties                                            *)

Records == DOMAIN outcome

Succeeded(i) == outcome[i].state = "Succeeded"

Failed(i) == outcome[i].state = "Failed"

Crashed(i) == outcome[i].state = "Crashed"

Ended(i) == outcome[i].state # "Pending"

\* record i made the call op, and the call succeeded / failed
Did(i, op) == \E k \in DOMAIN oplog : oplog[k] = [op |-> op, i |-> i, ok |-> TRUE]

Tried(i, op) == \E k \in DOMAIN oplog : oplog[k].op = op /\ oplog[k].i = i

Missed(i, op) == \E k \in DOMAIN oplog : oplog[k] = [op |-> op, i |-> i, ok |-> FALSE]

\* record i has ended and no later record has touched the stores yet
JustEnded(i) ==
    /\ i \in Records
    /\ Ended(i)
    /\ \A j \in Records : j > i => ~Tried(j, "get_object")

RowsOf(book_id) == {r \in book_meta_table : r.bookId = book_id}

ObjectsOf(book_id) == {o \in processed_bucket : o.Key = ProcessedKey(book_id)}

\* the failures the except clauses are meant to treat as recoverable:
\* missing object, unsupported extension, undecodable bytes
RecoverableErrors == {"FileNotFoundError", "ValueError", "UnicodeDecodeError"}

Recoverable(i) == Failed(i) /\ outcome[i].error \in RecoverableErrors

Severe(i) == Failed(i) /\ outcome[i].error \notin RecoverableErrors

AnalysisFields ==
    {"title", "author", "genre", "protagonist", "worldbuilding",
     "temporalSpatialSetting", "plotSummary", "keyEvents", "endingSummary",
     "bookOverview"}

MinimalFields == {"bookId", "status", "errorMessage", "originalS3Key", "lastProcessedDate"}

-----------------------------------------------------------------------------
(* C1  Failure isolation.  Whatever fails in extraction, analysis or       *)
(* persistence of a record, the handler goes on with the next record: a    *)
(* started invocation always ends; when it returns, every record was       *)
(* attempted and ended Succeeded or Failed and the code is 200, 202 or     *)
(* 500; the handled failure of a record that is not the last is followed   *)
(* by the extraction of the next one; and the only way not to return is    *)
(* that the write of a FAILED row itself failed.                           *)

C1_ReturnedAll ==
    pc = "done" =>
        /\ returned.statusCode \in {200, 202, 500}
        /\ \A i \in Records :
              /\ Tried(i, "get_object")
              /\ Succeeded(i) \/ Failed(i)

C1_NoReturnOnlyByStatusWrite ==
    pc = "crashed" =>
        /\ oplog[Len(oplog)] = [op |-> "put_failed", i |-> idx, ok |-> FALSE]
        /\ \A i \in Records : i < idx => Succeeded(i) \/ Failed(i)

C1_NextAfterFailure ==
    (pc = "except" /\ pc' # "crashed" /\ pc' # "except" /\ idx < Len(event))
        => (pc' = "extract" /\ idx' = idx + 1 /\ outcome'[idx].state = "Failed")

C1_FailureIsolation ==
    /\ [](C1_ReturnedAll /\ C1_NoReturnOnlyByStatusWrite)
    /\ [][C1_NextAfterFailure]_vars
    /\ (pc = "extract") ~> (pc \in {"done", "crashed"})

\* a returned batch whose first record failed and whose second succeeded
C1_Witness ==
    /\ pc = "done"
    /\ Len(event) >= 2
    /\ Failed(1)
    /\ Succeeded(2)

-----------------------------------------------------------------------------
(* C2  One row per itemId, holding the latest attempt only.  When a batch  *)
(* has returned, the table holds exactly one row for the itemId of every   *)
(* record, and that row is, field for field, the last item written by the  *)
(* last record of the batch with that itemId: PROCESSED if that record     *)
(* succeeded, FAILED if it failed; nothing of a row written earlier, in    *)
(* this batch or in an earlier invocation, is left.                        *)

LatestRecordOf(book_id) ==
    CHOOSE i \in Records :
        /\ BookId(event[i]) = book_id
        /\ \A j \in Records : BookId(event[j]) = book_id => j <= i

C2_OneRowLatestAttempt ==
    pc = "done" =>
        \A i \in Records :
            LET book_id == BookId(event[i])
                latest == LatestRecordOf(book_id)
            IN  /\ Cardinality(RowsOf(book_id)) = 1
                /\ RowsOf(book_id) = {outcome[latest].put}
                /\ \A r \in RowsOf(book_id) :
                      /\ r.originalS3Key = KeyStr(event[latest])
                      /\ Succeeded(latest) =>
                            r.status = "PROCESSED"
                            /\ DOMAIN r = {"bookId", "status", "originalS3Key",
                                           "processedS3Key", "lastProcessedDate"}
                                              \cup AnalysisFields
                      /\ Failed(latest) =>
                            r.status = "FAILED" /\ DOMAIN r = MinimalFields

\* a returned one-record batch that failed for an itemId whose companion text
\* an earlier invocation wrote: the FAILED row replaced that PROCESSED row
C2_Witness ==
    /\ pc = "done"
    /\ Len(event) = 1
    /\ Failed(1)
    /\ ObjectsOf(BookId(event[1])) # {}
    /\ \E r \in RowsOf(BookId(event[1])) : r.status = "FAILED"

-----------------------------------------------------------------------------
(* C3  All-or-nothing persistence per attempt.  A record that has ended    *)
(* either succeeded, with the analysis row and the companion text both     *)
(* written and the row PROCESSED, or wrote nothing but the minimal FAILED  *)
(* row: no analysis row and no companion text were written in the attempt  *)
(* and the FAILED row carries no analysis field.                           *)

C3_AllOrNothing ==
    \A i \in Records :
        Ended(i) =>
            \/ /\ Succeeded(i)
               /\ Did(i, "put_item")
               /\ Did(i, "put_object")
               /\ outcome[i].put.status = "PROCESSED"
            \/ /\ ~Succeeded(i)
               /\ ~Did(i, "put_item")
               /\ ~Did(i, "put_object")
               /\ Failed(i) =>
                     /\ outcome[i].put.status = "FAILED"
                     /\ DOMAIN outcome[i].put \cap AnalysisFields = {}

-----------------------------------------------------------------------------
(* C4  Metadata write succeeds, companion-text write fails.  As claimed:   *)
(* the record's row is left PROCESSED with the analysis metadata and no    *)
(* companion text was written for the attempt.                             *)

MetaThenTextFailed(i) == Did(i, "put_item") /\ Missed(i, "put_object")

C4_LeftProcessed ==
    \A i \in Records :
        (JustEnded(i) /\ MetaThenTextFailed(i)) =>
            /\ ~Did(i, "put_object")
            /\ \A r \in RowsOf(BookId(event[i])) :
                  r.status = "PROCESSED" /\ AnalysisFields \subseteq DOMAIN r

(* C4 as amended: the failed companion write is handled as a severe        *)
(* failure; the FAILED row replaces the PROCESSED row just written, so the *)
(* record's row ends FAILED with the minimal fields only and the code is   *)
(* set to 500; no companion text was written for the attempt.  The row     *)
(* stays PROCESSED without companion text only when the write of the       *)
(* FAILED row fails too, which ends the invocation without a return.       *)

C4_OverwrittenByFailed ==
    \A i \in Records :
        (JustEnded(i) /\ MetaThenTextFailed(i)) =>
            /\ ~Did(i, "put_object")
            /\ Cardinality(RowsOf(BookId(event[i]))) = 1
            /\ \A r \in RowsOf(BookId(event[i])) :
                  IF Crashed(i)
                  THEN r.status = "PROCESSED" /\ pc = "crashed"
                  ELSE /\ r.status = "FAILED"
                       /\ DOMAIN r = MinimalFields
                       /\ Severe(i)
                       /\ overall_status.statusCode = 500

\* a record whose metadata was written, whose text write failed, and that ended Failed
C4_Witness ==
    \E i \in Records :
        /\ JustEnded(i)
        /\ MetaThenTextFailed(i)
        /\ Failed(i)
        /\ ObjectsOf(BookId(event[i])) = {}

-----------------------------------------------------------------------------
(* C5  Outcome precedence.  The returned code is 500 if some record failed *)
(* with a severe error, otherwise 202 if some record failed with a         *)
(* recoverable error, otherwise 200.                                       *)

C5_Precedence ==
    pc = "done" =>
        returned.statusCode =
            IF \E i \in Records : Severe(i) THEN 500
            ELSE IF \E i \in Records : Recoverable(i) THEN 202
            ELSE 200

-----------------------------------------------------------------------------
(* C6  Last write wins over successes.  As claimed: a severe failure       *)
(* followed by a success, with no failure after that success, returns 200. *)

SevereThenSuccess ==
    \E i, j \in Records :
        /\ i < j
        /\ Severe(i)
        /\ Succeeded(j)
        /\ \A k \in Records : k > j => Succeeded(k)

LastFailure == CHOOSE i \in Records : Failed(i) /\ \A k \in Records : k > i => ~Failed(k)

C6_SuccessWins == (pc = "done" /\ SevereThenSuccess) => returned.statusCode = 200

(* C6 as amended: a success never writes the code.  When a record fails    *)
(* with a severe error and a later record succeeds with no failure after   *)
(* it, the returned code is not 200 but the code of the last failing       *)
(* record: 500 when that is the severe failure, 202 when a recoverable     *)
(* failure lies between the severe failure and the success.                *)

C6_SuccessKeepsCode ==
    (pc = "done" /\ SevereThenSuccess) =>
        /\ returned.statusCode # 200
        /\ returned.statusCode = IF Severe(LastFailure) THEN 500 ELSE 202

\* a returned batch: severe failure first, success last
C6_Witness ==
    /\ pc = "done"
    /\ Len(event) >= 2
    /\ Severe(1)
    /\ Succeeded(Len(event))
    /\ returned.statusCode = 500

-----------------------------------------------------------------------------
(* C7  Whenever the last record of a batch fails with a severe error, the  *)
(* returned code is 500, whatever happened to the records before it.       *)

C7_LastSevere ==
    (pc = "done" /\ Severe(Len(event))) => returned.statusCode = 500

\* a returned batch whose last record failed severely after an earlier failure
C7_Witness ==
    /\ pc = "done"
    /\ Len(event) >= 2
    /\ Severe(Len(event))
    /\ Failed(1)

-----------------------------------------------------------------------------
(* C8  Parse-failure recovery.  When the joined model text is not valid    *)
(* JSON, analyze_book_with_bedrock raises nothing and returns the fallback *)
(* record: title = itemId, author "N/A" and a copy of the first            *)
(* RawTextLimit characters of the raw text.  The dispatcher never sees the *)
(* parse failure: the record goes on to persistence, fails only if a store *)
(* write fails, is otherwise persisted PROCESSED with that title and       *)
(* author, and a returned batch of successes has code 200.                 *)

ParseFailed(i) == outcome[i].parse = "invalid"

FallbackPrefix == <<"AI analysis failed to parse. Raw text: ">>

C8_FallbackReturned ==
    (pc = "save_metadata" /\ ParseFailed(idx)) =>
        /\ exc = NoExc
        /\ book_analysis_data.py = "dict"
        /\ LET d == book_analysis_data.d
               copy == SubSeq(d.prologue_summary, Len(FallbackPrefix) + 1,
                              Len(d.prologue_summary))
           IN  /\ d.title = BookId(event[idx])
               /\ d.author = NA
               /\ SubSeq(d.prologue_summary, 1, Len(FallbackPrefix)) = FallbackPrefix
               /\ Len(copy) <= RawTextLimit
               /\ Len(copy) = Min(Len(model_text), RawTextLimit)
               /\ copy = SubSeq(model_text, 1, Len(copy))

C8_NeverSeen ==
    \A i \in Records :
        ParseFailed(i) =>
            /\ Ended(i) => Tried(i, "put_item")
            /\ (i = idx /\ pc = "except") => exc.type = "ClientError"
            /\ (Failed(i) \/ Crashed(i)) =>
                  /\ outcome[i].error = "ClientError"
                  /\ Missed(i, "put_item") \/ Missed(i, "put_object")
            /\ Succeeded(i) =>
                  /\ outcome[i].put.status = "PROCESSED"
                  /\ outcome[i].put.title = BookId(event[i])
                  /\ outcome[i].put.author = NA

C8_CodeUnchanged ==
    (pc = "done" /\ \A i \in Records : Succeeded(i)) => returned.statusCode = 200

C8_ParseFailureRecovered == C8_FallbackReturned /\ C8_NeverSeen /\ C8_CodeUnchanged

\* a returned batch whose last record got a model text longer than the limit
\* that is not JSON, and was persisted PROCESSED
C8_Witness ==
    /\ pc = "done"
    /\ ParseFailed(Len(event))
    /\ Succeeded(Len(event))
    /\ Len(model_text) > RawTextLimit
    /\ returned.statusCode = 200
    /\ \E r \in RowsOf(BookId(event[Len(event)])) :
          r.status = "PROCESSED" /\ r.title = BookId(event[Len(event)])

-----------------------------------------------------------------------------
(* C9  Mixed batch.  In a returned batch of records with distinct itemIds  *)
(* where at least one record succeeded and every other record failed only  *)
(* because of its unsupported extension, the code is 202, every succeeded  *)
(* record has exactly one row, PROCESSED with the analysis fields, and     *)
(* every failed record has exactly one row, FAILED, whose errorMessage     *)
(* names the (lower-cased) extension as an unsupported file type.          *)

UnsupportedExt(i) == Lower(Last(event[i])) \notin {TXT, PDF}

FailedUnsupported(i) ==
    /\ ~Succeeded(i)
    /\ Ended(i)
    /\ UnsupportedExt(i)
    /\ Did(i, "get_object")

MixedBatch ==
    /\ pc = "done"
    /\ \A i, j \in Records : i # j => BookId(event[i]) # BookId(event[j])
    /\ \A i \in Records : Succeeded(i) \/ FailedUnsupported(i)
    /\ \E i \in Records : Succeeded(i)
    /\ \E i \in Records : FailedUnsupported(i)

C9_MixedBatch ==
    MixedBatch =>
        /\ returned.statusCode = 202
        /\ \A i \in Records :
              LET rows == RowsOf(BookId(event[i]))
              IN  /\ Cardinality(rows) = 1
                  /\ \A r \in rows :
                        IF Succeeded(i)
                        THEN /\ r.status = "PROCESSED"
                             /\ AnalysisFields \subseteq DOMAIN r
                             /\ r.title # <<>>
                             /\ r.author # <<>>
                        ELSE /\ r.status = "FAILED"
                             /\ Contains(r.errorMessage,
                                         <<"Unsupported file type: ">>
                                             \o Lower(Last(event[i])))

\* a returned mixed batch of two records
C9_Witness ==
    /\ MixedBatch
    /\ Len(event) = 2
    /\ \E r \in book_meta_table : r.status = "PROCESSED"
    /\ \E r \in book_meta_table : r.status = "FAILED"

-----------------------------------------------------------------------------
(* C10  Error classification.  When a record has failed and its FAILED row *)
(* was written, the code is 202 if the failure is a missing source object, *)
(* an unsupported extension or undecodable text bytes, and 500 for every   *)
(* other failure (model service, store write, malformed PDF, anything      *)
(* else); the record's row is the FAILED row, and its errorMessage ends    *)
(* with the text of the original error.                                    *)

C10_Classification ==
    \A i \in Records :
        (JustEnded(i) /\ Failed(i)) =>
            /\ overall_status.statusCode =
                  IF outcome[i].error \in RecoverableErrors THEN 202 ELSE 500
            /\ (Missed(i, "invoke_model") \/ Missed(i, "put_item")
                   \/ Missed(i, "put_object"))
                  => overall_status.statusCode = 500
            /\ (Did(i, "get_object") /\ ~Tried(i, "invoke_model"))
                  => (overall_status.statusCode = 500
                         <=> Lower(Last(event[i])) = PDF)
            /\ RowsOf(BookId(event[i])) = {outcome[i].put}
            /\ outcome[i].put.status = "FAILED"
            /\ outcome[i].msg # <<>>
            /\ IsSuffix(outcome[i].msg, outcome[i].put.errorMessage)
            /\ Len(outcome[i].put.errorMessage) > Len(outcome[i].msg)

\* a returned batch: a severe failure, then undecodable bytes as the last record
C10_Witness ==
    /\ pc = "done"
    /\ Len(event) >= 2
    /\ Severe(1)
    /\ outcome[Len(event)].error = "UnicodeDecodeError"
    /\ Failed(Len(event))
    /\ overall_status.statusCode = 202

-----------------------------------------------------------------------------
(* C11  Format dispatch.  A record whose object was read and whose         *)
(* extension (what os.path.splitext splits off the key), lower-cased, is   *)
(* neither txt nor pdf fails in extraction with the unsupported-file-type  *)
(* ValueError naming the lower-cased extension, and the model is never     *)
(* called for it; a record whose extension is txt or pdf in any letter     *)
(* case does not fail as unsupported.                                      *)

\* the extension of a key: the segment after its last '.', none without a '.'
ExtOf(key) == IF Len(key) > 1 THEN Last(key) ELSE <<>>

NameSupported(i) == Lower(ExtOf(event[i])) \in {TXT, PDF}

UnsupportedMsg(i) == <<"Unsupported file type: ">> \o Lower(ExtOf(event[i]))

C11_FormatDispatch ==
    \A i \in Records :
        Did(i, "get_object") =>
            IF NameSupported(i)
            THEN /\ (i = idx /\ pc = "except") =>
                       ~Contains(exc.msg, <<"Unsupported file type: ">>)
                 /\ Ended(i) =>
                       ~Contains(outcome[i].msg, <<"Unsupported file type: ">>)
            ELSE /\ ~Tried(i, "invoke_model")
                 /\ (i = idx /\ pc # "extract") => pc \in {"except", "done", "crashed"}
                 /\ (i = idx /\ pc = "except") =>
                       /\ exc.type = "ValueError"
                       /\ Contains(exc.msg, UnsupportedMsg(i))
                 /\ Ended(i) =>
                       /\ ~Succeeded(i)
                       /\ outcome[i].error = "ValueError"
                       /\ Contains(outcome[i].msg, UnsupportedMsg(i))

-----------------------------------------------------------------------------
(* C12  Field presence by status.  In every state every row of the table   *)
(* with status FAILED has an errorMessage and no processedS3Key, and every *)
(* row with status PROCESSED has processedS3Key = processed_texts/<id>.txt *)
(* and no errorMessage, also when it replaced a row of the other status.   *)

C12_FieldPresence ==
    \A r \in book_meta_table :
        /\ r.status \in {"FAILED", "PROCESSED"}
        /\ r.status = "FAILED" =>
              /\ "errorMessage" \in DOMAIN r
              /\ "processedS3Key" \notin DOMAIN r
        /\ r.status = "PROCESSED" =>
              /\ "errorMessage" \notin DOMAIN r
              /\ "processedS3Key" \in DOMAIN r
              /\ r.processedS3Key = <<"processed_texts/">> \o r.bookId \o <<".txt">>

\* a returned batch whose second record wrote a PROCESSED row over the FAILED
\* row of its first record, next to a FAILED row of another itemId
C12_Witness ==
    /\ pc = "done"
    /\ Len(event) = 2
    /\ BookId(event[1]) = BookId(event[2])
    /\ Failed(1)
    /\ Succeeded(2)
    /\ \E r \in book_meta_table : r.status = "PROCESSED"
    /\ \E r \in book_meta_table : r.status = "FAILED"

-----------------------------------------------------------------------------
(* C13  Paginated extraction.  For a pdf key whose object PdfReader reads  *)
(* as n pages, extraction succeeds and the extracted text is n segments in *)
(* page order: segment i is the text of page i, and the empty string when  *)
(* page i has no extractable text.                                         *)

SegmentOf(page) == IF page.none THEN <<>> ELSE page.text

\* the length of the first i segments
RECURSIVE OffsetOf(_, _)
OffsetOf(pages, i) ==
    IF i = 0 THEN 0 ELSE OffsetOf(pages, i - 1) + Len(SegmentOf(pages[i]))

PdfRead(i) ==
    /\ i \in Records
    /\ Did(i, "get_object")
    /\ Lower(Last(event[i])) = PDF
    /\ outcome[i].pdf.ok

C13_PageSegments ==
    PdfRead(idx) =>
        LET pages == outcome[idx].pdf.pages
            n == Len(pages)
        IN  /\ ~(pc = "except" /\ ~Tried(idx, "invoke_model"))
            /\ Len(extracted_text) = OffsetOf(pages, n)
            /\ \A i \in 1..n :
                  SubSeq(extracted_text, OffsetOf(pages, i - 1) + 1, OffsetOf(pages, i))
                      = SegmentOf(pages[i])

\* a PDF of MaxPages pages, extracted: no text on the first page, text on the last
C13_Witness ==
    /\ PdfRead(idx)
    /\ pc = "analyze"
    /\ Len(outcome[idx].pdf.pages) = MaxPages
    /\ outcome[idx].pdf.pages[1].none
    /\ outcome[idx].pdf.pages[MaxPages] = PageText(<<98, 99>>)
    /\ extracted_text # <<>>

-----------------------------------------------------------------------------
(* C14  Stage order and short-circuit.  The calls made for a record occur  *)
(* only in the order source read, model call, metadata write, companion-   *)
(* text write, write of the FAILED row.  The model is called only after    *)
(* the source was read and extraction raised nothing, the metadata write   *)
(* is made only after the analysis returned, the companion-text write only *)
(* after the metadata write succeeded; once a stage has failed the only    *)
(* further call for the record is the write of the FAILED row.             *)

Rank(op) ==
    CASE op = "get_object" -> 1
      [] op = "invoke_model" -> 2
      [] op = "put_item" -> 3
      [] op = "put_object" -> 4
      [] OTHER -> 5

C14_Order ==
    \A k, l \in DOMAIN oplog :
        (k < l /\ oplog[k].i = oplog[l].i) =>
            /\ Rank(oplog[k].op) < Rank(oplog[l].op)
            /\ ~oplog[k].ok => oplog[l].op = "put_failed"

C14_Preconditions ==
    \A i \in Records :
        /\ Tried(i, "invoke_model") => Did(i, "get_object")
        /\ Tried(i, "put_item") => (Did(i, "invoke_model") /\ outcome[i].parse # "none")
        /\ Tried(i, "put_object") => Did(i, "put_item")
        /\ Succeeded(i) => (Did(i, "put_object") /\ ~Tried(i, "put_failed"))
        /\ (Failed(i) \/ Crashed(i)) => Tried(i, "put_failed")

\* with an exception in flight the next call is the write of the FAILED row
C14_ShortCircuit ==
    pc = "except" =>
        /\ Len(oplog') = Len(oplog) + 1
        /\ oplog'[Len(oplog')].op = "put_failed"
        /\ oplog'[Len(oplog')].i = idx
        /\ SubSeq(oplog', 1, Len(oplog)) = oplog

C14_StageOrder ==
    /\ [](C14_Order /\ C14_Preconditions)
    /\ [][C14_ShortCircuit]_vars

\* a returned batch: the first record got as far as a failed companion-text
\* write, the second went through all four stages
C14_Witness ==
    /\ pc = "done"
    /\ Len(event) = 2
    /\ Missed(1, "put_object")
    /\ Did(1, "put_failed")
    /\ Succeeded(2)
    /\ Len(oplog) = 9

-----------------------------------------------------------------------------
(* C15  A failed write of the FAILED row is fatal.  The invocation ends    *)
(* there without returning a code: the error is not recovered, no FAILED   *)
(* row is written for the record, no later record of the batch is touched, *)
(* and nothing runs afterwards but a new invocation.                       *)

C15_Dead ==
    \A i \in Records :
        Missed(i, "put_failed") =>
            /\ pc = "crashed"
            /\ idx = i
            /\ Crashed(i)
            /\ returned = NoReturn
            /\ outcome[i].put.status # "FAILED"
            /\ oplog[Len(oplog)] = [op |-> "put_failed", i |-> i, ok |-> FALSE]
            /\ \A j \in Records : j > i => (outcome[j] = Pending /\ ~Tried(j, "get_object"))

C15_StaysDead ==
    pc = "crashed" =>
        \/ UNCHANGED vars
        \/ /\ pc' = "extract"
           /\ idx' = 1
           /\ oplog' = <<>>
           /\ returned' = NoReturn
           /\ UNCHANGED <<book_meta_table, processed_bucket>>

C15_FatalStatusWrite == []C15_Dead /\ [][C15_StaysDead]_vars

\* the write of the FAILED row of the first of two records failed
C15_Witness ==
    /\ pc = "crashed"
    /\ Len(event) = 2
    /\ idx = 1
    /\ Missed(1, "put_failed")

-----------------------------------------------------------------------------
(* C16  Sequential, exactly-once consumption.  Within one invocation the   *)
(* calls are made record by record in input order: every call of record i  *)
(* comes before every call of record i+1, a record is started only when    *)
(* the one before it has ended, no call is made twice for a record, and a  *)
(* returned invocation has read the source of every record exactly once.   *)

C16_Sequential ==
    /\ \A k, l \in DOMAIN oplog :
          k < l =>
              /\ oplog[k].i <= oplog[l].i
              /\ ~(oplog[k].i = oplog[l].i /\ oplog[k].op = oplog[l].op)
    /\ \A k \in DOMAIN oplog : oplog[k].i \in 1..idx
    /\ \A i \in Records :
          /\ Tried(i, "get_object") => \A j \in Records : j < i => Ended(j)
          /\ Ended(i) => Tried(i, "get_object")
    /\ pc = "done" =>
          \A i \in Records :
              Cardinality({k \in DOMAIN oplog :
                              oplog[k].i = i /\ oplog[k].op = "get_object"}) = 1

\* a returned batch of two records that both went through the four stages
C16_Witness ==
    /\ pc = "done"
    /\ Len(event) = 2
    /\ Succeeded(1)
    /\ Succeeded(2)
    /\ Len(oplog) = 8

-----------------------------------------------------------------------------
(* C17  Exact aggregate rule.  For every batch on which lambda_handler     *)
(* returns, the code is 200 if and only if no record failed; otherwise it  *)
(* is the code of the last failing record in batch order, 202 when that    *)
(* failure is recoverable and 500 when it is severe, whatever happened to  *)
(* the records before it and to the successful records after it.  The      *)
(* returned body is the same message in every case.                        *)

NoFailure == \A i \in Records : ~Failed(i)

CodeOf(i) == IF Recoverable(i) THEN 202 ELSE 500

C17_AggregateRule ==
    pc = "done" =>
        /\ returned.body = Body
        /\ returned.statusCode \in {200, 202, 500}
        /\ returned.statusCode = 200 <=> NoFailure
        /\ ~NoFailure => returned.statusCode = CodeOf(LastFailure)
        /\ \A i \in Records : Succeeded(i) \/ Failed(i)

\* a returned batch of a severe failure followed by a recoverable one
C17_Witness ==
    /\ pc = "done"
    /\ Len(event) = 2
    /\ Severe(1)
    /\ Recoverable(2)
    /\ returned.statusCode = 202
    /\ returned.body = Body

-----------------------------------------------------------------------------
(* C18  Valid JSON that is not an object.  When the joined model text      *)
(* parses to a list, string, number, boolean or null,                      *)
(* analyze_book_with_bedrock returns that value and not the fallback       *)
(* record; save_metadata_to_dynamodb then raises AttributeError before any *)
(* put_item, so neither a PROCESSED row nor a companion text is written    *)
(* for the record, and it ends with a FAILED row and the code 500.         *)

NonObjectKinds == {"list", "str", "int", "bool", "NoneType"}

ParsedOther(i) == outcome[i].parse = "other"

C18_ReturnedAsIs ==
    (pc = "save_metadata" /\ ParsedOther(idx)) =>
        /\ exc = NoExc
        /\ book_analysis_data.py \in NonObjectKinds
        /\ book_analysis_data = json_loads(model_text).value

C18_SevereFailure ==
    \A i \in Records :
        ParsedOther(i) =>
            /\ Did(i, "invoke_model")
            /\ ~Tried(i, "put_item")
            /\ ~Tried(i, "put_object")
            /\ ~Succeeded(i)
            /\ Ended(i) => Tried(i, "put_failed")
            /\ (i = idx /\ pc = "except") => exc.type = "AttributeError"
            /\ (Failed(i) \/ Crashed(i)) => outcome[i].error = "AttributeError"
            /\ Failed(i) =>
                  /\ Severe(i)
                  /\ outcome[i].put.status = "FAILED"
                  /\ DOMAIN outcome[i].put = MinimalFields
            /\ (Failed(i) /\ JustEnded(i)) =>
                  /\ outcome[i].put \in book_meta_table
                  /\ RowsOf(BookId(event[i])) = {outcome[i].put}
                  /\ overall_status.statusCode = 500
                  /\ pc = "done" => returned.statusCode = 500

C18_NonObjectJson == C18_ReturnedAsIs /\ C18_SevereFailure

\* a returned invocation whose record got a model text that is a JSON value of
\* a kind other than list, and failed
C18_Witness ==
    /\ pc = "done"
    /\ ParsedOther(1)
    /\ json_loads(model_text).value.py \in NonObjectKinds \ {"list"}
    /\ Failed(1)
    /\ returned.statusCode = 500
    /\ \E r \in RowsOf(BookId(event[1])) : r.status = "FAILED"

-----------------------------------------------------------------------------
(* C19  Invalid envelope.  When invoke_model answers with a body that is   *)
(* not valid JSON, no model text has been extracted and the fallback       *)
(* record is not produced: the except clause for the parse failure raises  *)
(* UnboundLocalError on the unbound raw text, the error leaves             *)
(* analyze_book_with_bedrock, nothing is persisted as PROCESSED, and the   *)
(* record ends with a FAILED row and the code 500.                         *)

InvalidEnvelope(i) == Did(i, "invoke_model") /\ outcome[i].parse = "none"

C19_InvalidEnvelope ==
    \A i \in Records :
        InvalidEnvelope(i) =>
            /\ i = idx => (pc # "save_metadata" /\ pc # "save_text" /\ model_text = <<>>)
            /\ ~Tried(i, "put_item")
            /\ ~Tried(i, "put_object")
            /\ ~Succeeded(i)
            /\ Ended(i) => Tried(i, "put_failed")
            /\ (i = idx /\ pc = "except") => exc.type = "UnboundLocalError"
            /\ (Failed(i) \/ Crashed(i)) => outcome[i].error = "UnboundLocalError"
            /\ Failed(i) =>
                  /\ Severe(i)
                  /\ outcome[i].put.status = "FAILED"
                  /\ DOMAIN outcome[i].put = MinimalFields
            /\ (Failed(i) /\ JustEnded(i)) =>
                  /\ RowsOf(BookId(event[i])) = {outcome[i].put}
                  /\ overall_status.statusCode = 500
                  /\ pc = "done" => returned.statusCode = 500

\* a returned batch whose last record got an invalid envelope after a success
C19_Witness ==
    /\ pc = "done"
    /\ Len(event) = 2
    /\ Succeeded(1)
    /\ InvalidEnvelope(2)
    /\ Failed(2)
    /\ returned.statusCode = 500

====
